---- MODULE Spec2Model ----
(***************************************************************************)
(* Model of the NIT reconciliation run of the package src/src:             *)
(*   report.py            validar_nit_en_relaciones_invertidas             *)
(*   processor.py         enriquecer_inconsistencias_normales/particulares *)
(*   ucmdb_operations.py  ejecutar_delete_ucmdb, eliminar_en_ucmdb         *)
(*   itsm_operations.py   ejecutar_update_itsm, eliminar_en_itsm           *)
(*   main.py              procesar_reporte                                 *)
(*                                                                         *)
(* A Python string is a sequence of symbols.  None, an absent dict key and *)
(* the literal "N/A" are one-symbol sequences whose symbol is no symbol of *)
(* a payload string, so that every value of a field has the same shape.    *)
(***************************************************************************)
EXTENDS Integers, Sequences, FiniteSets, TLC

\* ------------------------------------------------------------------ bounds
MaxRels == 3
MaxNitLen == 2
MaxReintentos == 3
MaxElems == 2
MaxIntentos == 2

\* ------------------------------------------------------- program constants
DefaultMaxReintentos == 3

\* ---------------------------------------------------------- Python values
None == <<"None">>
Missing == <<"Missing">>
NA == <<"N/A">>
Vacio == << >>

Espacios == {" "}
Letras == {"A"}
Simbolos == {" ", "9", "5", "A"}

\* dict.get(key): an absent key reads as None
Get(v) == IF v = Missing THEN None ELSE v

\* dict.get(key, default)
GetDef(v, d) == IF v = Missing THEN d ELSE v

\* truth value of an optional string: None and "" are falsy
Truthy(v) == v # None /\ v # Missing /\ v # Vacio

RECURSIVE LStrip(_)
LStrip(s) == IF s = << >> THEN s
             ELSE IF Head(s) \in Espacios THEN LStrip(Tail(s)) ELSE s

RECURSIVE RStrip(_)
RStrip(s) == IF s = << >> THEN s
             ELSE IF s[Len(s)] \in Espacios THEN RStrip(SubSeq(s, 1, Len(s) - 1)) ELSE s

Strip_izquierda(s) == LStrip(s)

\* str.strip()
Strip(s) == RStrip(LStrip(s))

\* any(c.isalpha() for c in s)
contar_letras(s) == \E i \in 1..Len(s) : s[i] \in Letras

\* all strings of at most n symbols
RECURSIVE StringsUpTo(_)
StringsUpTo(n) == IF n = 0 THEN { << >> }
                  ELSE LET S == StringsUpTo(n - 1)
                       IN S \cup { Append(s, c) : s \in { t \in S : Len(t) = n - 1 }, c \in Simbolos }

\* ------------------------------------------------------------------- state
VARIABLES
    modo,            \* ExecutionFlags.MODO_EJECUCION
    cis,             \* json_data["cis"]
    relations,       \* json_data["relations"]
    pc,              \* position of the run
    validacion,      \* result and counters of validar_nit_en_relaciones_invertidas
    enriquecidas,    \* relaciones_enriquecidas_normales
    enriquecidas_p,  \* relaciones_enriquecidas_particulares
    ucmdb,           \* locals of eliminar_en_ucmdb
    itsm,            \* locals of eliminar_en_itsm
    llamadas,        \* invocations of ejecutar_delete_ucmdb / ejecutar_update_itsm
    llamada,         \* frame of the ejecutar_* call in progress
    reporte,         \* frame of consultar_reporte_ucmdb and the report server
    principal,       \* frame of main: configuration, token, exit code
    anterior         \* audit records of the previous run over the same payload

vars == <<modo, cis, relations, pc, validacion, enriquecidas, enriquecidas_p,
          ucmdb, itsm, llamadas, llamada, reporte, principal, anterior>>

\* the state outside procesar_reporte and the ejecutar_* calls
entorno == <<reporte, principal, anterior>>

\* ------------------------------------------------------------- the payload
Id(x) == <<x>>

TIPO_SC == "clr_onyxservicecodes"
TIPO_CLIENTE == "clr_onyxcustomer"
TIPOS_FO == {"clr_service_catalog_fo_e", "clr_service_catalog_fo_n",
             "clr_service_catalog_fo_p", "clr_service_catalog_fo_cloud"}

CI(id, tipo, a, b) == [ucmdbId |-> id, type |-> tipo, nitA |-> a, nitB |-> b]
Rel(id, tipo, e1, e2) == [ucmdbId |-> id, type |-> tipo, end1Id |-> e1, end2Id |-> e2]

\* ------------------------------------------------- validator (report.py)
NoCI == CI(None, "", Missing, Missing)

\* nodos_por_id.get(id): CIs with a falsy id are not indexed, the last CI
\* with a given id wins
RECURSIVE nodos_por_id(_, _)
nodos_por_id(cs, id) ==
    IF cs = << >> \/ ~Truthy(id) THEN NoCI
    ELSE IF cs[Len(cs)].ucmdbId = id THEN cs[Len(cs)]
         ELSE nodos_por_id(SubSeq(cs, 1, Len(cs) - 1), id)

\* nit_end1_norm != nit_end2_norm
NitsDifieren(n1, n2) == n1 # n2

EsParticular_ambos(n1, n2) == contar_letras(n1) /\ contar_letras(n2)

\* contar_letras(nit_end1_norm) or contar_letras(nit_end2_norm)
EsParticular(n1, n2) == contar_letras(n1) \/ contar_letras(n2)

Inconsistencia(rel, i, n1, n2) ==
    [ucmdbId |-> Get(rel.ucmdbId), nit_end1 |-> n1, nit_end2 |-> n2,
     end1Id |-> Get(rel.end1Id), end2Id |-> Get(rel.end2Id),
     rel |-> i, enriquecido |-> FALSE, relacion_fo |-> FALSE, ucmdbid_fo |-> Missing,
     end1Id_containment |-> Missing]

ValidarRel_unContador(cs, rel, i, acc) ==
    LET nodo_end1 == nodos_por_id(cs, Get(rel.end1Id))
        nodo_end2 == nodos_por_id(cs, Get(rel.end2Id))
        nit_end1 == Get(nodo_end1.nitA)
        nit_end2 == Get(nodo_end2.nitB)
        n1 == Strip(nit_end1)
        n2 == Strip(nit_end2)
        inc == Inconsistencia(rel, i, n1, n2)
    IN  IF nodo_end1 = NoCI \/ nodo_end2 = NoCI \/ nit_end1 = None \/ nit_end2 = None
        THEN [acc EXCEPT !.nodos_faltantes = @ + 1]
        ELSE IF NitsDifieren(n1, n2)
        THEN IF EsParticular(n1, n2)
             THEN [acc EXCEPT !.particulares = Append(@, inc), !.procesadas = @ + 1]
             ELSE [acc EXCEPT !.normales = Append(@, inc), !.procesadas = @ + 1]
        ELSE [acc EXCEPT !.procesadas = @ + 1]

\* one iteration of the loop over relaciones, on the accumulator acc
ValidarRel(cs, rel, i, acc) ==
    LET nodo_end1 == nodos_por_id(cs, Get(rel.end1Id))
        nodo_end2 == nodos_por_id(cs, Get(rel.end2Id))
        nit_end1 == Get(nodo_end1.nitA)
        nit_end2 == Get(nodo_end2.nitB)
        n1 == Strip(nit_end1)
        n2 == Strip(nit_end2)
        inc == Inconsistencia(rel, i, n1, n2)
    IN  IF nodo_end1 = NoCI \/ nodo_end2 = NoCI
        THEN [acc EXCEPT !.nodos_faltantes = @ + 1]
        ELSE IF nit_end1 = None \/ nit_end2 = None
        THEN [acc EXCEPT !.nits_faltantes = @ + 1]
        ELSE IF NitsDifieren(n1, n2)
        THEN IF EsParticular(n1, n2)
             THEN [acc EXCEPT !.particulares = Append(@, inc), !.procesadas = @ + 1]
             ELSE [acc EXCEPT !.normales = Append(@, inc), !.procesadas = @ + 1]
        ELSE [acc EXCEPT !.procesadas = @ + 1]

AccVacio_uno == [normales |-> << >>, particulares |-> << >>,
                 nodos_faltantes |-> 0, nits_faltantes |-> 0, procesadas |-> 1]

AccVacio == [normales |-> << >>, particulares |-> << >>,
             nodos_faltantes |-> 0, nits_faltantes |-> 0, procesadas |-> 0]

RECURSIVE ValidarDesde(_, _, _, _)
ValidarDesde(cs, rels, i, acc) ==
    IF i > Len(rels) THEN acc
    ELSE ValidarDesde(cs, rels, i + 1, ValidarRel(cs, rels[i], i, acc))

validar_nit_en_relaciones_invertidas_inverso(cs, rels) ==
    IF cs = << >> \/ rels = << >> THEN AccVacio
    ELSE LET r == ValidarDesde(cs, rels, 1, AccVacio)
         IN  [r EXCEPT !.normales = [i \in 1..Len(@) |-> @[Len(@) + 1 - i]]]

validar_nit_en_relaciones_invertidas(cs, rels) ==
    IF cs = << >> \/ rels = << >> THEN AccVacio
    ELSE ValidarDesde(cs, rels, 1, AccVacio)

\* ---------------------------------------------- indices (main.py 84-89)
NoRel == Rel(None, "", None, None)

\* relations_by_id.get(id): relations with a falsy id are not indexed
RECURSIVE relations_by_id(_, _)
relations_by_id(rels, id) ==
    IF rels = << >> \/ ~Truthy(id) THEN NoRel
    ELSE IF rels[Len(rels)].ucmdbId = id THEN rels[Len(rels)]
         ELSE relations_by_id(SubSeq(rels, 1, Len(rels) - 1), id)

\* containment_by_end2.get(end2id): the last containment relation wins
RECURSIVE containment_by_end2(_, _)
containment_by_end2(rels, end2id) ==
    IF rels = << >> \/ ~Truthy(end2id) THEN NoRel
    ELSE IF rels[Len(rels)].type = "containment" /\ rels[Len(rels)].end2Id = end2id
         THEN rels[Len(rels)]
         ELSE containment_by_end2(SubSeq(rels, 1, Len(rels) - 1), end2id)

\* cis_by_id.get(id)
cis_by_id(cs, id) == nodos_por_id(cs, id)

\* ------------------------------------------------ enrichment (processor.py)
\* ci_node and ci_node.get("type") in tipos_fo_validos
EsFO(ci_node) == ci_node # NoCI /\ ci_node.type \in TIPOS_FO

EnriquecerNormal_primero(cs, rels, item) ==
    LET rel_original == relations_by_id(rels, item.ucmdbId)
        end2id == Get(rel_original.end2Id)
        idx == { i \in 1..Len(rels) : /\ rels[i].type = "containment" /\ Truthy(end2id)
                                       /\ rels[i].end2Id = end2id }
        containment_rel == IF idx = {} THEN NoRel
                           ELSE rels[CHOOSE i \in idx : \A j \in idx : i <= j]
        ci_node == cis_by_id(cs, Get(containment_rel.end1Id))
        es_fo == containment_rel # NoRel /\ EsFO(ci_node)
    IN  IF rel_original = NoRel THEN item
        ELSE [item EXCEPT !.enriquecido = TRUE,
                          !.relacion_fo = es_fo,
                          !.ucmdbid_fo = IF es_fo THEN GetDef(containment_rel.ucmdbId, NA) ELSE NA]

EnriquecerNormal(cs, rels, item) ==
    LET rel_original == relations_by_id(rels, item.ucmdbId)
        end2id == Get(rel_original.end2Id)
        containment_rel == containment_by_end2(rels, end2id)
        ci_node == cis_by_id(cs, Get(containment_rel.end1Id))
        es_fo == containment_rel # NoRel /\ EsFO(ci_node)
    IN  IF rel_original = NoRel THEN item
        ELSE [item EXCEPT !.enriquecido = TRUE,
                          !.relacion_fo = es_fo,
                          !.ucmdbid_fo = IF es_fo THEN GetDef(containment_rel.ucmdbId, NA) ELSE NA]

enriquecer_inconsistencias_normales_inverso(cs, rels, incs) ==
    [k \in 1..Len(incs) |-> EnriquecerNormal(cs, rels, incs[Len(incs) + 1 - k])]

enriquecer_inconsistencias_normales(cs, rels, incs) ==
    [k \in 1..Len(incs) |-> EnriquecerNormal(cs, rels, incs[k])]

EnriquecerParticular_fo(rels, item) ==
    LET containment_rel == containment_by_end2(rels, item.end2Id)
    IN  [item EXCEPT !.relacion_fo = containment_rel # NoRel,
                     !.end1Id_containment =
            IF containment_rel # NoRel THEN GetDef(containment_rel.end1Id, NA) ELSE NA]

\* processor.py 191-201: only end1Id_containment is added to a particular item
EnriquecerParticular(rels, item) ==
    LET containment_rel == containment_by_end2(rels, item.end2Id)
    IN  [item EXCEPT !.end1Id_containment =
            IF containment_rel # NoRel THEN GetDef(containment_rel.end1Id, NA) ELSE NA]

enriquecer_inconsistencias_particulares(rels, incs) ==
    [k \in 1..Len(incs) |-> EnriquecerParticular(rels, incs[k])]

\* ------------------------------------------------------------ HTTP answers
Http(st) == [tipo |-> "http", status |-> st]
Timeout == [tipo |-> "timeout", status |-> 0]
ConnectionError == [tipo |-> "conexion", status |-> 0]
OtraExcepcion == [tipo |-> "excepcion", status |-> 0]
SinRespuesta == [tipo |-> "ninguna", status |-> 0]

Estados == {200, 201, 202, 204, 400, 404, 429, 500, 501, 503}
Respuestas == {Http(st) : st \in Estados} \cup {Timeout, ConnectionError, OtraExcepcion}

\* the answers the servers give during a whole run
RespuestasRun == {Http(204), Http(404), Http(503), Timeout}

\* ------------------------------------------- retry loops (ejecutar_*)
Retorno(ex, txt, st) == [exito |-> ex, texto |-> txt, status |-> st]
SinRetorno == Retorno(FALSE, "", 0)

Url(base, segs) == [base |-> base, segs |-> segs]
UrlVacia == Url("", << >>)

SinLlamada ==
    [fn |-> "ninguna", estado |-> "inactiva", url |-> UrlVacia, max_reintentos |-> 0,
     intento |-> 0, esperas |-> 0, ultimo |-> SinRespuesta, retorno |-> SinRetorno]

NuevaLlamada(fn, url, max) ==
    [SinLlamada EXCEPT !.fn = fn, !.estado = "en_curso", !.url = url, !.max_reintentos = max]

ErrorServidorUcmdb_429(st) == st \in {429, 500, 502, 503, 504}

\* response.status_code in [500, 502, 503, 504] of ejecutar_delete_ucmdb
ErrorServidorUcmdb(st) == st \in {500, 502, 503, 504}

\* response.status_code in [500, 502, 503, 504] of ejecutar_update_itsm
ErrorServidorItsm(st) == st \in {500, 502, 503, 504}

\* outcome of one iteration of the loop of ejecutar_delete_ucmdb:
\* "seguir" is the continue statement, anything else a return
ClasificarDelete(r, intento, max) ==
    IF r.tipo = "http" THEN
        IF r.status \in {200, 204}
        THEN [seguir |-> FALSE, ret |-> Retorno(TRUE, "Eliminacion exitosa (HTTP)", r.status)]
        ELSE IF r.status = 404
        THEN [seguir |-> FALSE, ret |-> Retorno(FALSE, "Recurso no encontrado (HTTP 404)", 404)]
        ELSE IF ErrorServidorUcmdb(r.status)
        THEN IF intento < max
             THEN [seguir |-> TRUE, ret |-> SinRetorno]
             ELSE [seguir |-> FALSE, ret |-> Retorno(FALSE, "Error servidor despues de intentos", r.status)]
        ELSE [seguir |-> FALSE, ret |-> Retorno(FALSE, "Error HTTP", r.status)]
    ELSE IF r.tipo = "timeout" THEN
        IF intento = max
        THEN [seguir |-> FALSE, ret |-> Retorno(FALSE, "Timeout agotado", 0)]
        ELSE [seguir |-> TRUE, ret |-> SinRetorno]
    ELSE IF r.tipo = "conexion" THEN
        IF intento = max
        THEN [seguir |-> FALSE, ret |-> Retorno(FALSE, "Error de conexion", 0)]
        ELSE [seguir |-> TRUE, ret |-> SinRetorno]
    ELSE [seguir |-> FALSE, ret |-> Retorno(FALSE, "Error", 0)]

ClasificarUpdate_reintenta(r, intento, max) ==
    IF r.tipo = "http" THEN
        IF r.status \in {200, 204}
        THEN [seguir |-> FALSE, ret |-> Retorno(TRUE, "Actualizacion exitosa en ITSM (HTTP)", r.status)]
        ELSE IF r.status = 404
        THEN [seguir |-> FALSE, ret |-> Retorno(FALSE, "Relacion no encontrada en ITSM (HTTP 404)", 404)]
        ELSE IF ErrorServidorItsm(r.status)
        THEN IF intento < max
             THEN [seguir |-> TRUE, ret |-> SinRetorno]
             ELSE [seguir |-> FALSE, ret |-> Retorno(FALSE, "Error servidor ITSM despues de intentos", r.status)]
        ELSE [seguir |-> FALSE, ret |-> Retorno(FALSE, "Error HTTP en ITSM", r.status)]
    ELSE IF r.tipo = "timeout" THEN
        IF intento = max
        THEN [seguir |-> FALSE, ret |-> Retorno(FALSE, "Timeout en ITSM agotado", 0)]
        ELSE [seguir |-> TRUE, ret |-> SinRetorno]
    ELSE IF intento = max
         THEN [seguir |-> FALSE, ret |-> Retorno(FALSE, "Error de conexion ITSM", 0)]
         ELSE [seguir |-> TRUE, ret |-> SinRetorno]

\* outcome of one iteration of the loop of ejecutar_update_itsm
ClasificarUpdate(r, intento, max) ==
    IF r.tipo = "http" THEN
        IF r.status \in {200, 204}
        THEN [seguir |-> FALSE, ret |-> Retorno(TRUE, "Actualizacion exitosa en ITSM (HTTP)", r.status)]
        ELSE IF r.status = 404
        THEN [seguir |-> FALSE, ret |-> Retorno(FALSE, "Relacion no encontrada en ITSM (HTTP 404)", 404)]
        ELSE IF ErrorServidorItsm(r.status)
        THEN IF intento < max
             THEN [seguir |-> TRUE, ret |-> SinRetorno]
             ELSE [seguir |-> FALSE, ret |-> Retorno(FALSE, "Error servidor ITSM despues de intentos", r.status)]
        ELSE [seguir |-> FALSE, ret |-> Retorno(FALSE, "Error HTTP en ITSM", r.status)]
    ELSE IF r.tipo = "timeout" THEN
        IF intento = max
        THEN [seguir |-> FALSE, ret |-> Retorno(FALSE, "Timeout en ITSM agotado", 0)]
        ELSE [seguir |-> TRUE, ret |-> SinRetorno]
    ELSE IF r.tipo = "conexion" THEN
        IF intento = max
        THEN [seguir |-> FALSE, ret |-> Retorno(FALSE, "Error de conexion ITSM", 0)]
        ELSE [seguir |-> TRUE, ret |-> SinRetorno]
    ELSE [seguir |-> FALSE, ret |-> Retorno(FALSE, "Error ITSM", 0)]

\* the frame after the iteration number ll.intento + 1 got the answer r
TrasIntento(ll, c, r) ==
    [ll EXCEPT !.intento = @ + 1,
               !.ultimo = r,
               !.estado = IF c.seguir THEN "en_curso" ELSE "retornada",
               !.retorno = c.ret]

\* the frame when range(1, max_reintentos + 1) is used up
TrasBucle(ll, txt) ==
    [ll EXCEPT !.estado = "retornada", !.retorno = Retorno(FALSE, txt, 0)]

\* ejecutar_delete_ucmdb: one iteration of the loop, or the return after it;
\* R is the set of answers the server may give
EjecutarDeleteUcmdb(R) ==
    /\ llamada.fn = "delete" /\ llamada.estado = "en_curso"
    /\ IF llamada.intento >= llamada.max_reintentos
       THEN llamada' = TrasBucle(llamada, "Error desconocido")
       ELSE \E r \in R :
              llamada' = TrasIntento(llamada,
                  ClasificarDelete(r, llamada.intento + 1, llamada.max_reintentos), r)
    /\ UNCHANGED entorno
    /\ UNCHANGED <<modo, cis, relations, pc, validacion, enriquecidas, enriquecidas_p,
                   ucmdb, itsm, llamadas>>

\* ejecutar_update_itsm: the URL check, one iteration, or the return after the loop
EjecutarUpdateItsm(R) ==
    /\ llamada.fn = "update" /\ llamada.estado = "en_curso"
    /\ IF llamada.url = UrlVacia
       THEN llamada' = TrasBucle(llamada, "URL vacia")
       ELSE IF llamada.intento >= llamada.max_reintentos
       THEN llamada' = TrasBucle(llamada, "Error desconocido en ITSM")
       ELSE \E r \in R :
              llamada' = TrasIntento(llamada,
                  ClasificarUpdate(r, llamada.intento + 1, llamada.max_reintentos), r)
    /\ UNCHANGED entorno
    /\ UNCHANGED <<modo, cis, relations, pc, validacion, enriquecidas, enriquecidas_p,
                   ucmdb, itsm, llamadas>>

\* ------------------------------------------------ procesar_reporte (main.py)
DELETE_ENDPOINT == "https://ucmdbapp.triara.co:8443/rest-api/dataModel/relation"
ITSM_BASE_URL == "ITSM_URL"

UcmdbInicial ==
    [idx |-> 0, pendientes |-> << >>, total_deletes |-> 0, exitosas |-> 0, fallidas |-> 0,
     resumen |-> << >>]
ItsmInicial ==
    [validas |-> << >>, idx |-> 0, exitosas |-> 0, fallidas |-> 0, resumen |-> << >>]

\* main.py 76: the validator scans the whole payload
Validar ==
    /\ pc = "validar"
    /\ validacion' = validar_nit_en_relaciones_invertidas(cis, relations)
    /\ pc' = "enriquecer"
    /\ UNCHANGED entorno
    /\ UNCHANGED <<modo, cis, relations, enriquecidas, enriquecidas_p, ucmdb, itsm,
                   llamadas, llamada>>

\* main.py 81-104: indices and both enrichment passes
Enriquecer ==
    /\ pc = "enriquecer"
    /\ enriquecidas' = enriquecer_inconsistencias_normales(cis, relations, validacion.normales)
    /\ enriquecidas_p' = enriquecer_inconsistencias_particulares(relations, validacion.particulares)
    /\ pc' = "ucmdb_inicio"
    /\ UNCHANGED entorno
    /\ UNCHANGED <<modo, cis, relations, validacion, ucmdb, itsm, llamadas, llamada>>

EsEjecucion_invertida(m) == m # "ejecucion"

\* modo_ejecucion == "ejecucion"
EsEjecucion(m) == m = "ejecucion"

Modo(m) == IF m = "ejecucion" THEN "EJECUCION" ELSE "SIMULACION"

\* eliminar_en_ucmdb up to the loop: an empty list returns at once
EliminarEnUcmdbInicio ==
    /\ pc = "ucmdb_inicio"
    /\ IF enriquecidas = << >>
       THEN pc' = "itsm_inicio" /\ UNCHANGED ucmdb
       ELSE pc' = "ucmdb_item" /\ ucmdb' = [UcmdbInicial EXCEPT !.idx = 1]
    /\ UNCHANGED entorno
    /\ UNCHANGED <<modo, cis, relations, validacion, enriquecidas, enriquecidas_p, itsm,
                   llamadas, llamada>>

IdsAEliminar_foPrimero(ucmdbid, relacion_fo, ucmdbid_fo) ==
    IF relacion_fo /\ ucmdbid_fo # NA THEN <<ucmdbid_fo, ucmdbid>> ELSE <<ucmdbid>>

\* ids_a_eliminar of one item
IdsAEliminar(ucmdbid, relacion_fo, ucmdbid_fo) ==
    IF relacion_fo /\ ucmdbid_fo # NA THEN <<ucmdbid, ucmdbid_fo>> ELSE <<ucmdbid>>

\* eliminar_en_ucmdb 148-172: the head of one iteration of the outer loop.
\* item.get("ucmdbId", "") is None for a null id and None.strip() raises.
EliminarEnUcmdbItem ==
    /\ pc = "ucmdb_item" /\ ucmdb.idx <= Len(enriquecidas)
    /\ LET item == enriquecidas[ucmdb.idx]
           crudo == GetDef(item.ucmdbId, Vacio)
           ucmdbid == Strip(crudo)
           ucmdbid_fo == GetDef(item.ucmdbid_fo, NA)
       IN  IF crudo = None
           THEN pc' = "error" /\ UNCHANGED ucmdb
           ELSE IF ucmdbid = Vacio
           THEN pc' = "ucmdb_item" /\ ucmdb' = [ucmdb EXCEPT !.idx = @ + 1]
           ELSE /\ pc' = "ucmdb_delete"
                /\ ucmdb' = [ucmdb EXCEPT !.pendientes =
                                 IdsAEliminar(ucmdbid, item.relacion_fo, ucmdbid_fo)]
    /\ UNCHANGED entorno
    /\ UNCHANGED <<modo, cis, relations, validacion, enriquecidas, enriquecidas_p, itsm,
                   llamadas, llamada>>

ResultadoUcmdb(numero, id, url, m, estado) ==
    [numero |-> numero, ucmdbId |-> id, ucmdbid_fo |-> Missing, url |-> url,
     metodo |-> "DELETE", modo |-> Modo(m), estado |-> estado]

\* the inner loop moves on: next id, or next item when the ids are used up
TrasDelete(u) ==
    IF Tail(u.pendientes) = << >>
    THEN [u EXCEPT !.pendientes = << >>, !.idx = @ + 1]
    ELSE [u EXCEPT !.pendientes = Tail(@)]

\* eliminar_en_ucmdb 174-205: one id of ids_a_eliminar, up to the call of
\* ejecutar_delete_ucmdb (execution) or to the SIMULADA record (simulation)
EliminarEnUcmdbDelete ==
    /\ pc = "ucmdb_delete" /\ ucmdb.pendientes # << >>
    /\ LET ucmdb_id == Head(ucmdb.pendientes)
           url == Url(DELETE_ENDPOINT, <<ucmdb_id>>)
           u == [ucmdb EXCEPT !.total_deletes = @ + 1]
       IN  IF EsEjecucion(modo)
           THEN /\ llamada' = NuevaLlamada("delete", url, DefaultMaxReintentos)
                /\ llamadas' = Append(llamadas,
                       [metodo |-> "DELETE", url |-> url, rel |-> enriquecidas[ucmdb.idx].rel])
                /\ ucmdb' = u
                /\ pc' = "ucmdb_http"
           ELSE /\ ucmdb' = TrasDelete([u EXCEPT !.resumen = Append(@,
                       ResultadoUcmdb(u.total_deletes, ucmdb_id, url, modo, "SIMULADA"))])
                /\ pc' = IF Tail(ucmdb.pendientes) = << >> THEN "ucmdb_item" ELSE "ucmdb_delete"
                /\ UNCHANGED <<llamadas, llamada>>
    /\ UNCHANGED entorno
    /\ UNCHANGED <<modo, cis, relations, validacion, enriquecidas, enriquecidas_p, itsm>>

EliminarEnUcmdbRegistrar_soloExitos ==
    /\ pc = "ucmdb_http" /\ llamada.estado = "retornada"
    /\ LET exito == llamada.retorno.exito
           u == [ucmdb EXCEPT
                   !.exitosas = IF exito THEN @ + 1 ELSE @,
                   !.fallidas = IF exito THEN @ ELSE @ + 1,
                   !.resumen = IF exito
                               THEN Append(@, ResultadoUcmdb(ucmdb.total_deletes,
                                        Head(ucmdb.pendientes), llamada.url, modo, "EXITOSA"))
                               ELSE @]
       IN  /\ ucmdb' = TrasDelete(u)
           /\ pc' = IF Tail(ucmdb.pendientes) = << >> THEN "ucmdb_item" ELSE "ucmdb_delete"
    /\ llamada' = SinLlamada
    /\ UNCHANGED entorno
    /\ UNCHANGED <<modo, cis, relations, validacion, enriquecidas, enriquecidas_p, itsm,
                   llamadas>>

\* eliminar_en_ucmdb 189-205: ejecutar_delete_ucmdb returned
EliminarEnUcmdbRegistrar ==
    /\ pc = "ucmdb_http" /\ llamada.estado = "retornada"
    /\ LET exito == llamada.retorno.exito
           u == [ucmdb EXCEPT
                   !.exitosas = IF exito THEN @ + 1 ELSE @,
                   !.fallidas = IF exito THEN @ ELSE @ + 1,
                   !.resumen = Append(@, ResultadoUcmdb(ucmdb.total_deletes,
                        Head(ucmdb.pendientes), llamada.url, modo,
                        IF exito THEN "EXITOSA" ELSE "FALLIDA"))]
       IN  /\ ucmdb' = TrasDelete(u)
           /\ pc' = IF Tail(ucmdb.pendientes) = << >> THEN "ucmdb_item" ELSE "ucmdb_delete"
    /\ llamada' = SinLlamada
    /\ UNCHANGED entorno
    /\ UNCHANGED <<modo, cis, relations, validacion, enriquecidas, enriquecidas_p, itsm,
                   llamadas>>

\* eliminar_en_ucmdb 207-221: the loop is over
EliminarEnUcmdbFin ==
    /\ pc = "ucmdb_item" /\ ucmdb.idx > Len(enriquecidas)
    /\ pc' = "itsm_inicio"
    /\ UNCHANGED entorno
    /\ UNCHANGED <<modo, cis, relations, validacion, enriquecidas, enriquecidas_p, ucmdb,
                   itsm, llamadas, llamada>>

\* main.py 123-126
EsNormalConFo(item) == item.relacion_fo /\ Get(item.ucmdbid_fo) # NA

\* itsm_operations.py 167-170
EsRelacionValida(item) == Truthy(item.ucmdbid_fo) /\ Get(item.ucmdbid_fo) # NA

UrlItsm_invertida(ucmdbid_fo, ucmdbid) ==
    Url(ITSM_BASE_URL, <<Id("cirelationship1to1s"), ucmdbid, ucmdbid_fo>>)

\* f"{config.BASE_URL}/cirelationship1to1s/{ucmdbid_fo}/{ucmdbid}"
UrlItsm(ucmdbid_fo, ucmdbid) == Url(ITSM_BASE_URL, <<Id("cirelationship1to1s"), ucmdbid_fo, ucmdbid>>)

EliminarEnItsmInicio_siExito ==
    /\ pc = "itsm_inicio"
    /\ LET normales_con_fo == SelectSeq(enriquecidas, EsNormalConFo)
           relaciones_validas == SelectSeq(normales_con_fo, EsRelacionValida)
       IN  IF relaciones_validas = << >> \/ ucmdb.fallidas > 0
           THEN pc' = "fin" /\ UNCHANGED itsm
           ELSE pc' = "itsm_item" /\ itsm' = [ItsmInicial EXCEPT !.validas = relaciones_validas,
                                                                 !.idx = 1]
    /\ UNCHANGED entorno
    /\ UNCHANGED <<modo, cis, relations, validacion, enriquecidas, enriquecidas_p, ucmdb,
                   llamadas, llamada>>

\* main.py 123-132 and eliminar_en_itsm up to the loop
EliminarEnItsmInicio ==
    /\ pc = "itsm_inicio"
    /\ LET normales_con_fo == SelectSeq(enriquecidas, EsNormalConFo)
           relaciones_validas == SelectSeq(normales_con_fo, EsRelacionValida)
       IN  IF relaciones_validas = << >>
           THEN pc' = "fin" /\ UNCHANGED itsm
           ELSE pc' = "itsm_item" /\ itsm' = [ItsmInicial EXCEPT !.validas = relaciones_validas,
                                                                 !.idx = 1]
    /\ UNCHANGED entorno
    /\ UNCHANGED <<modo, cis, relations, validacion, enriquecidas, enriquecidas_p, ucmdb,
                   llamadas, llamada>>

ResultadoItsm(numero, id, fo, url, m, estado) ==
    [numero |-> numero, ucmdbId |-> id, ucmdbid_fo |-> fo, url |-> url,
     metodo |-> "PUT", modo |-> Modo(m), estado |-> estado]

\* eliminar_en_itsm 184-226: one iteration, up to the call of
\* ejecutar_update_itsm (execution) or to the SIMULADA record (simulation)
EliminarEnItsmItem ==
    /\ pc = "itsm_item" /\ itsm.idx <= Len(itsm.validas)
    /\ LET item == itsm.validas[itsm.idx]
           crudo == GetDef(item.ucmdbId, Vacio)
           crudo_fo == GetDef(item.ucmdbid_fo, Vacio)
           ucmdbid == Strip(crudo)
           ucmdbid_fo == Strip(crudo_fo)
           url == UrlItsm(ucmdbid_fo, ucmdbid)
       IN  IF crudo = None \/ crudo_fo = None
           THEN pc' = "error" /\ UNCHANGED <<itsm, llamadas, llamada>>
           ELSE IF ucmdbid = Vacio \/ ucmdbid_fo = Vacio
           THEN /\ pc' = "itsm_item" /\ itsm' = [itsm EXCEPT !.idx = @ + 1]
                /\ UNCHANGED <<llamadas, llamada>>
           ELSE IF EsEjecucion(modo)
           THEN /\ llamada' = NuevaLlamada("update", url, DefaultMaxReintentos)
                /\ llamadas' = Append(llamadas,
                       [metodo |-> "PUT", url |-> url, rel |-> item.rel])
                /\ pc' = "itsm_http"
                /\ UNCHANGED itsm
           ELSE /\ itsm' = [itsm EXCEPT !.idx = @ + 1, !.resumen = Append(@,
                       ResultadoItsm(itsm.idx, ucmdbid, ucmdbid_fo, url, modo, "SIMULADA"))]
                /\ pc' = "itsm_item"
                /\ UNCHANGED <<llamadas, llamada>>
    /\ UNCHANGED entorno
    /\ UNCHANGED <<modo, cis, relations, validacion, enriquecidas, enriquecidas_p, ucmdb>>

\* eliminar_en_itsm 212-226: ejecutar_update_itsm returned
EliminarEnItsmRegistrar ==
    /\ pc = "itsm_http" /\ llamada.estado = "retornada"
    /\ LET exito == llamada.retorno.exito
           item == itsm.validas[itsm.idx]
       IN  itsm' = [itsm EXCEPT
                   !.idx = @ + 1,
                   !.exitosas = IF exito THEN @ + 1 ELSE @,
                   !.fallidas = IF exito THEN @ ELSE @ + 1,
                   !.resumen = Append(@, ResultadoItsm(itsm.idx, Strip(item.ucmdbId),
                        Strip(item.ucmdbid_fo), llamada.url, modo,
                        IF exito THEN "EXITOSA" ELSE "FALLIDA"))]
    /\ pc' = "itsm_item"
    /\ llamada' = SinLlamada
    /\ UNCHANGED entorno
    /\ UNCHANGED <<modo, cis, relations, validacion, enriquecidas, enriquecidas_p, ucmdb,
                   llamadas>>

\* eliminar_en_itsm 228-237 and main.py 134: the run returns SUCCESS
EliminarEnItsmFin ==
    /\ pc = "itsm_item" /\ itsm.idx > Len(itsm.validas)
    /\ pc' = "fin"
    /\ UNCHANGED entorno
    /\ UNCHANGED <<modo, cis, relations, validacion, enriquecidas, enriquecidas_p, ucmdb,
                   itsm, llamadas, llamada>>

\* ------------------------------------------- report text (report.py 159-210)
\* A report text is the sequence of its structural characters; "x" stands
\* for any run of other characters (keys, colons, scalars, line breaks).
Max(S) == CHOOSE m \in S : \A n \in S : n <= m

\* str.rfind of a two-character pattern: 0-based position, -1 when absent
RFind2(s, a, b) ==
    LET P == { i \in 1..(Len(s) - 1) : s[i] = a /\ s[i + 1] = b }
    IN  IF P = {} THEN -1 ELSE Max(P) - 1

\* str.rfind of one character
RFind1(s, a) ==
    LET P == { i \in 1..Len(s) : s[i] = a }
    IN  IF P = {} THEN -1 ELSE Max(P) - 1

\* contenido_str.rstrip(', ')
RECURSIVE RStripSep(_)
RStripSep(s) == IF s = << >> THEN s
                ELSE IF s[Len(s)] \in {",", " "} THEN RStripSep(SubSeq(s, 1, Len(s) - 1)) ELSE s

\* str.count of one character
Contar(s, c) == Cardinality({ i \in 1..Len(s) : s[i] = c })

\* c * n: empty when n <= 0
Repetir(c, n) == [i \in 1..n |-> c]

\* report.py 166-178: cut after the right-most "}," or "]," that is not at
\* position 0, else after the last "}" that is not at position 0
Truncar(s) ==
    LET posiciones == { RFind2(s, "}", ","), RFind2(s, "]", ",") }
        posiciones_validas == { q \in posiciones : q > 0 }
        ultimo_close == RFind1(s, "}")
    IN  IF posiciones_validas # {} THEN SubSeq(s, 1, Max(posiciones_validas) + 2)
        ELSE IF ultimo_close > 0 THEN SubSeq(s, 1, ultimo_close + 1)
        ELSE s

\* report.py 162-202: the repair of a cut download; ok is FALSE when the
\* ValueError of line 191 is raised and contenido keeps the raw bytes
RepararTruncado(s) ==
    LET t == RStripSep(Truncar(s))
        open_brackets == Contar(t, "[")
        close_brackets == Contar(t, "]")
        open_braces == Contar(t, "{")
        close_braces == Contar(t, "}")
    IN  IF open_braces = 0 \/ open_brackets = 0
        THEN [ok |-> FALSE, texto |-> s]
        ELSE [ok |-> TRUE,
              texto |-> t \o Repetir("]", open_brackets - close_brackets)
                         \o Repetir("}", open_braces - close_braces)]

\* ---------------------------------------------------- the report documents
\* elements joined by the separator sep
RECURSIVE Unir(_, _)
Unir(elems, sep) ==
    IF elems = << >> THEN << >>
    ELSE IF Len(elems) = 1 THEN elems[1]
    ELSE elems[1] \o sep \o Unir(Tail(elems), sep)

\* {"ucmdbId": .., "type": .., "properties": {..}}
TextoCI == <<"{", "x", ",", "x", "{", "x", "}", "}">>
\* {"ucmdbId": .., "type": .., "end1Id": .., "end2Id": ..}
TextoRel == <<"{", "x", "}">>

\* {"cis": [..], "relations": [..]} with nc CIs and nr relations
Documento(nc, nr, sep) ==
    <<"{", "x", "[">> \o Unir([i \in 1..nc |-> TextoCI], sep) \o <<"]">> \o sep
        \o <<"x", "[">> \o Unir([i \in 1..nr |-> TextoRel], sep) \o <<"]", "}">>

\* {"cis": [..]}
DocumentoSoloCis(nc, sep) ==
    <<"{", "x", "[">> \o Unir([i \in 1..nc |-> TextoCI], sep) \o <<"]", "}">>

Separadores == { <<",">>, <<",", " ">> }

Documentos ==
    { Documento(nc, nr, sep) : nc \in 0..MaxElems, nr \in 0..MaxElems, sep \in Separadores }
    \cup { DocumentoSoloCis(nc, sep) : nc \in 0..MaxElems, sep \in Separadores }

\* json.dumps of a payload: one object per CI and per relation
Serializar(cs, rels) == Documento(Len(cs), Len(rels), <<",", " ">>)

\* ---------------------------------- consultar_reporte_ucmdb (report.py 52-276)
MAX_RETRIES == 5

SinAlternativa == [tipo |-> "ninguna", status |-> 0, texto |-> << >>]

\* an answer to the POST of one iteration: an HTTP status or an exception of
\* session.post; for a 200 the body arrives whole or the stream is cut after
\* corte characters, grande telling whether more than 100 MB had arrived;
\* for a 4xx, alt is the answer to the alternative JSON request
RespuestaReporte(tipo, status, cortado, corte, grande, alt) ==
    [tipo |-> tipo, status |-> status, cortado |-> cortado, corte |-> corte,
     grande |-> grande, alt |-> alt]

SinRespuestaReporte == RespuestaReporte("ninguna", 0, FALSE, 0, FALSE, SinAlternativa)

\* the answers to the alternative request (report.py 223-235)
Alternativas(doc) ==
    { [tipo |-> "http", status |-> 200, texto |-> t] : t \in {doc, << >>} }
    \cup { [tipo |-> "http", status |-> 400, texto |-> << >>],
           [tipo |-> "excepcion", status |-> 0, texto |-> << >>] }

EstadosReporte == {204, 400, 404, 500, 503}

RespuestasReporte(doc) ==
    { RespuestaReporte("http", 200, FALSE, Len(doc), FALSE, SinAlternativa) }
    \cup { RespuestaReporte("http", 200, TRUE, k, FALSE, SinAlternativa) : k \in 0..Len(doc) }
    \cup { RespuestaReporte("http", 200, TRUE, k, TRUE, SinAlternativa) : k \in 1..Len(doc) }
    \cup { RespuestaReporte("http", st, FALSE, 0, FALSE, SinAlternativa) :
             st \in { e \in EstadosReporte : e < 400 \/ e >= 500 } }
    \cup { RespuestaReporte("http", st, FALSE, 0, FALSE, a) :
             st \in { e \in EstadosReporte : e >= 400 /\ e < 500 }, a \in Alternativas(doc) }
    \cup { RespuestaReporte(t, 0, FALSE, 0, FALSE, SinAlternativa) :
             t \in {"timeout", "conexion", "peticion", "excepcion"} }

\* response.text of an error answer
CuerpoDe(status) == <<"cuerpo", ToString(status)>>

SinReporte ==
    [estado |-> "inactiva", documento |-> << >>, reintentos |-> 0, intento |-> 0,
     esperas |-> 0, peticiones |-> 0, ultimo |-> SinRespuestaReporte,
     recibido |-> << >>, rescate |-> FALSE, reparado |-> << >>,
     resultado |-> "ninguno", texto |-> None, cuerpo |-> << >>]

\* the call consultar_reporte_ucmdb(token, reintentos=n) against a server
\* that holds the document doc
NuevoReporte(doc, n) ==
    [SinReporte EXCEPT !.estado = "en_curso", !.documento = doc, !.reintentos = n]

\* return of a str (or None)
RetornaReporte(rp, txt) == [rp EXCEPT !.estado = "retornada", !.resultado = "retorno", !.texto = txt]

\* raise of the exception exc with the response body cuerpo in its message
LanzaReporte(rp, exc, cuerpo) ==
    [rp EXCEPT !.estado = "retornada", !.resultado = exc, !.cuerpo = cuerpo]

\* report.py 207-210: the text returned after a download, whole or salvaged
TextoDevuelto(recibido, reparado) == recibido

Tras200_reintenta(rp, r) ==
    LET recibido == SubSeq(rp.documento, 1, r.corte)
        rep == RepararTruncado(recibido)
    IN  IF ~r.cortado THEN RetornaReporte([rp EXCEPT !.recibido = recibido],
                                TextoDevuelto(recibido, recibido))
        ELSE IF recibido # << >> /\ r.grande
        THEN RetornaReporte([rp EXCEPT !.recibido = recibido, !.rescate = TRUE,
                                       !.reparado = rep.texto],
                            TextoDevuelto(recibido, rep.texto))
        ELSE IF rp.intento = rp.reintentos
        THEN LanzaReporte([rp EXCEPT !.recibido = recibido], "ReportError", << >>)
        ELSE rp

\* report.py 127-210: a 200 answer
Tras200(rp, r) ==
    LET recibido == SubSeq(rp.documento, 1, r.corte)
        rep == RepararTruncado(recibido)
    IN  IF ~r.cortado THEN RetornaReporte([rp EXCEPT !.recibido = recibido],
                                TextoDevuelto(recibido, recibido))
        ELSE IF recibido # << >> /\ r.grande
        THEN RetornaReporte([rp EXCEPT !.recibido = recibido, !.rescate = TRUE,
                                       !.reparado = rep.texto],
                            TextoDevuelto(recibido, rep.texto))
        ELSE LanzaReporte([rp EXCEPT !.recibido = recibido], "ReportError", << >>)

\* report.py 211-243: an answer with another status
TrasError(rp, r) ==
    IF 400 <= r.status /\ r.status < 500
    THEN LET q == [rp EXCEPT !.peticiones = @ + 1]
         IN  IF r.alt.tipo = "http" /\ r.alt.status = 200
             THEN RetornaReporte(q, r.alt.texto)
             ELSE LanzaReporte(q, "ReportError", CuerpoDe(r.status))
    ELSE IF rp.intento = rp.reintentos
    THEN LanzaReporte(rp, "ReportError", CuerpoDe(r.status))
    ELSE rp

\* report.py 245-274: an exception of session.post
TrasExcepcion(rp, r) ==
    IF r.tipo = "excepcion" THEN LanzaReporte(rp, "Exception", << >>)
    ELSE IF rp.intento = rp.reintentos
    THEN LanzaReporte(rp, IF r.tipo = "timeout" THEN "ReportTimeoutError" ELSE "ReportError", << >>)
    ELSE rp

\* one iteration of the loop: rp already counts it
TrasPeticion(rp, r) ==
    IF r.tipo = "http" THEN IF r.status = 200 THEN Tras200(rp, r) ELSE TrasError(rp, r)
    ELSE TrasExcepcion(rp, r)

\* consultar_reporte_ucmdb: one iteration of the loop of line 105 (the sleep
\* of line 109, the POST, its outcome), or the return of line 276
ConsultarReporteUcmdb ==
    /\ reporte.estado = "en_curso"
    /\ IF reporte.intento >= reporte.reintentos
       THEN reporte' = RetornaReporte(reporte, None)
       ELSE \E r \in RespuestasReporte(reporte.documento) :
              reporte' = TrasPeticion(
                  [reporte EXCEPT !.intento = @ + 1,
                                  !.esperas = IF reporte.intento >= 1 THEN @ + 1 ELSE @,
                                  !.peticiones = @ + 1,
                                  !.ultimo = r], r)
    /\ UNCHANGED <<modo, cis, relations, pc, validacion, enriquecidas, enriquecidas_p,
                   ucmdb, itsm, llamadas, llamada, principal, anterior>>

\* ------------------------------------------------------- main (main.py 137-267)
SUCCESS == 0
AUTH_ERROR == 1
REPORT_ERROR == 2
JSON_ERROR == 3
CONFIG_ERROR == 4
EXECUTION_ERROR == 5
SinSalida == -1

SinPayload == [cis |-> << >>, relations |-> << >>]

\* config: what validar_configuracion_inicial finds; local: USAR_REPORTE_LOCAL;
\* servidor: the graph the report holds; auth: calls of obtener_token_ucmdb;
\* contenido: reporte_contenido; salida: the exit code
SinPrincipal ==
    [config |-> "valida", local |-> FALSE, servidor |-> SinPayload, archivo |-> TRUE,
     auth |-> 0, token |-> None, contenido |-> None, salida |-> SinSalida]

ConfigValida_siempre(c) == TRUE

\* validar_configuracion_inicial does not raise ValueError
ConfigValida(c) == c = "valida"

\* json.loads accepts the text: a value, the containers closed in order,
\* members and elements separated by single commas
RECURSIVE Analizar(_, _, _, _)
Analizar(t, i, pila, prev) ==
    IF i > Len(t) THEN pila = << >> /\ prev = "valor"
    ELSE LET c == t[i]
             tope == IF pila = << >> THEN "" ELSE pila[Len(pila)]
             resto == SubSeq(pila, 1, Len(pila) - 1)
         IN  IF c = " " THEN Analizar(t, i + 1, pila, prev)
             ELSE IF c = "x"
             THEN /\ prev \in {"inicio", "abre", "coma"}
                  /\ Analizar(t, i + 1, pila, IF tope = "{" THEN "clave" ELSE "valor")
             ELSE IF c \in {"{", "["}
             THEN /\ \/ prev = "inicio"
                     \/ prev \in {"abre", "coma"} /\ tope = "["
                     \/ prev = "clave"
                  /\ Analizar(t, i + 1, Append(pila, c), "abre")
             ELSE IF c = "}"
             THEN /\ tope = "{" /\ prev \in {"abre", "valor", "clave"}
                  /\ Analizar(t, i + 1, resto, "valor")
             ELSE IF c = "]"
             THEN /\ tope = "[" /\ prev \in {"abre", "valor"}
                  /\ Analizar(t, i + 1, resto, "valor")
             ELSE IF c = ","
             THEN /\ pila # << >> /\ prev \in {"valor", "clave"}
                  /\ Analizar(t, i + 1, pila, "coma")
             ELSE FALSE

json_valido(t) == t # None /\ Analizar(t, 1, << >>, "inicio")

\* nesting depth before position i
Profundidad(t, i) ==
    Cardinality({ j \in 1..(i - 1) : t[j] \in {"{", "["} })
        - Cardinality({ j \in 1..(i - 1) : t[j] \in {"}", "]"} })

\* number of objects of the k-th array of the root object: json_data["cis"]
\* is the first one, json_data["relations"] the second
Elementos(t, k) ==
    Cardinality({ i \in 1..Len(t) :
        /\ t[i] = "{" /\ Profundidad(t, i) = 2
        /\ Cardinality({ j \in 1..(i - 1) : t[j] = "[" /\ Profundidad(t, j) = 1 }) = k })

\* json.loads(reporte_contenido) of a text of the server that holds payload
json_loads(t, payload) ==
    [cis |-> SubSeq(payload.cis, 1, Elementos(t, 1)),
     relations |-> SubSeq(payload.relations, 1, Elementos(t, 2))]

\* processor.py 233-272
validar_integridad_json(json_data) == json_data.cis # << >> /\ json_data.relations # << >>

Sale(p, codigo) == [p EXCEPT !.salida = codigo]

\* main.py 152-157
MainConfig ==
    /\ pc = "main_config"
    /\ IF ConfigValida(principal.config)
       THEN pc' = "main_auth" /\ UNCHANGED principal
       ELSE pc' = "salida" /\ principal' = Sale(principal, CONFIG_ERROR)
    /\ UNCHANGED <<modo, cis, relations, validacion, enriquecidas, enriquecidas_p,
                   ucmdb, itsm, llamadas, llamada, reporte, anterior>>

\* main.py 170-182: obtener_token_ucmdb returns a token or None
MainAuth ==
    /\ pc = "main_auth"
    /\ IF ~principal.local \/ modo = "ejecucion"
       THEN \E token \in {<<"jwt">>, None} :
              IF Truthy(token)
              THEN /\ principal' = [principal EXCEPT !.auth = @ + 1, !.token = token]
                   /\ pc' = "main_reporte"
              ELSE /\ principal' = Sale([principal EXCEPT !.auth = @ + 1], AUTH_ERROR)
                   /\ pc' = "salida"
       ELSE pc' = "main_reporte" /\ UNCHANGED principal
    /\ UNCHANGED <<modo, cis, relations, validacion, enriquecidas, enriquecidas_p,
                   ucmdb, itsm, llamadas, llamada, reporte, anterior>>

\* main.py 190-207: the local file is read, or consultar_reporte_ucmdb is called
MainReporte ==
    /\ pc = "main_reporte"
    /\ IF principal.local
       THEN /\ IF principal.archivo
               THEN /\ principal' = [principal EXCEPT !.contenido =
                                        Serializar(principal.servidor.cis, principal.servidor.relations)]
                    /\ pc' = "main_json"
               ELSE /\ principal' = Sale(principal, REPORT_ERROR)
                    /\ pc' = "salida"
            /\ UNCHANGED reporte
       ELSE /\ reporte' = NuevoReporte(
                    Serializar(principal.servidor.cis, principal.servidor.relations), MAX_RETRIES)
            /\ pc' = "main_consulta"
            /\ UNCHANGED principal
    /\ UNCHANGED <<modo, cis, relations, validacion, enriquecidas, enriquecidas_p,
                   ucmdb, itsm, llamadas, llamada, anterior>>

\* main.py 207-214: consultar_reporte_ucmdb returned or raised
MainReporteObtenido ==
    /\ pc = "main_consulta" /\ reporte.estado = "retornada"
    /\ IF reporte.resultado = "retorno" /\ Truthy(reporte.texto)
       THEN /\ principal' = [principal EXCEPT !.contenido = reporte.texto]
            /\ pc' = "main_json"
       ELSE /\ principal' = Sale(principal, REPORT_ERROR)
            /\ pc' = "salida"
    /\ UNCHANGED <<modo, cis, relations, validacion, enriquecidas, enriquecidas_p,
                   ucmdb, itsm, llamadas, llamada, reporte, anterior>>

\* main.py 222-260: json.loads, validar_integridad_json, then procesar_reporte
MainJson ==
    /\ pc = "main_json"
    /\ LET json_data == json_loads(principal.contenido, principal.servidor)
       IN  IF json_valido(principal.contenido) /\ validar_integridad_json(json_data)
           THEN /\ cis' = json_data.cis
                /\ relations' = json_data.relations
                /\ pc' = "validar"
                /\ UNCHANGED principal
           ELSE /\ principal' = Sale(principal, JSON_ERROR)
                /\ pc' = "salida"
                /\ UNCHANGED <<cis, relations>>
    /\ UNCHANGED <<modo, validacion, enriquecidas, enriquecidas_p,
                   ucmdb, itsm, llamadas, llamada, reporte, anterior>>

\* main.py 260-267: procesar_reporte returned SUCCESS; an exception that
\* escaped it ends the process with EXECUTION_ERROR (main.py 277-279)
MainRetorna ==
    /\ pc \in {"fin", "error"}
    /\ principal' = Sale(principal, IF pc = "fin" THEN SUCCESS ELSE EXECUTION_ERROR)
    /\ pc' = "salida"
    /\ UNCHANGED <<modo, cis, relations, validacion, enriquecidas, enriquecidas_p,
                   ucmdb, itsm, llamadas, llamada, reporte, anterior>>

SinAnterior == [corridas |-> 0, ucmdb |-> << >>, itsm |-> << >>]

\* ----------------------------------------------------------- the payloads
Catalogo ==
    << CI(Id("n1"), TIPO_CLIENTE, <<"9">>, Missing),
       CI(Id("n2"), TIPO_SC, Missing, <<"9", " ">>),
       CI(Id("n3"), TIPO_SC, Missing, <<"5">>),
       CI(Id("n4"), TIPO_SC, Missing, <<"A", "5">>),
       CI(Id("n5"), TIPO_SC, Missing, Missing),
       CI(Id("n6"), TIPO_SC, Missing, <<"5", "5">>),
       CI(Id("f1"), "clr_service_catalog_fo_e", Missing, Missing),
       CI(Id("f2"), "clr_service_catalog", Missing, Missing) >>

\* the id of the relation at position i of the payload
IdRel(i) == <<"r", ToString(i)>>

\* the shapes of the relations of a payload; Propio stands for the id of
\* the position the relation takes in the payload
Propio == <<"propio">>

Formas ==
    { Rel(Propio, "composition", Id("n1"), e2) : e2 \in {Id("n2"), Id("n3"), Id("n4"), Id("n5"), Id("n6")} }
    \cup { Rel(Propio, "composition", Id("x9"), Id("n3")) }
    \cup { Rel(id, "composition", Id("n1"), Id("n3")) : id \in {Vacio, <<" ">>, None} }
    \cup { Rel(Propio, "containment", e1, Id("n3")) : e1 \in {Id("f1"), Id("f2"), Id("x9")} }
    \cup { Rel(Propio, "containment", Id("f1"), Id("n4")) }
    \cup { Rel(id, "containment", Id("f1"), Id("n3")) : id \in {Vacio, None, Missing} }

\* the relation of shape f at position i
RelDe(f, i) == [f EXCEPT !.ucmdbId = IF @ = Propio THEN IdRel(i) ELSE @]

\* a second run of procesar_reporte over the same payload: the audit records
\* of the first run are kept aside and every local of the run starts afresh
OtraCorrida ==
    /\ pc \in {"fin", "error"} /\ anterior.corridas = 0
    /\ anterior' = [corridas |-> 1, ucmdb |-> ucmdb.resumen, itsm |-> itsm.resumen]
    /\ pc' = "validar"
    /\ validacion' = AccVacio
    /\ enriquecidas' = << >>
    /\ enriquecidas_p' = << >>
    /\ ucmdb' = UcmdbInicial
    /\ itsm' = ItsmInicial
    /\ UNCHANGED <<modo, cis, relations, llamadas, llamada, reporte, principal>>

\* -------------------------------------------------------- specifications
Init ==
    /\ modo \in {"simulacion", "ejecucion"}
    /\ cis = Catalogo
    /\ \E n \in 1..MaxRels : \E f \in [1..n -> Formas] :
          relations = [i \in 1..n |-> RelDe(f[i], i)]
    /\ pc = "validar"
    /\ validacion = AccVacio
    /\ enriquecidas = << >>
    /\ enriquecidas_p = << >>
    /\ ucmdb = UcmdbInicial
    /\ itsm = ItsmInicial
    /\ llamadas = << >>
    /\ llamada = SinLlamada
    /\ reporte = SinReporte
    /\ principal = SinPrincipal
    /\ anterior = SinAnterior

Next ==
    \/ Validar
    \/ Enriquecer
    \/ EliminarEnUcmdbInicio
    \/ EliminarEnUcmdbItem
    \/ EliminarEnUcmdbDelete
    \/ EjecutarDeleteUcmdb(RespuestasRun)
    \/ EliminarEnUcmdbRegistrar
    \/ EliminarEnUcmdbFin
    \/ EliminarEnItsmInicio
    \/ EliminarEnItsmItem
    \/ EjecutarUpdateItsm(RespuestasRun)
    \/ EliminarEnItsmRegistrar
    \/ EliminarEnItsmFin

Spec == Init /\ [][Next]_vars

\* a direct call of ejecutar_delete_ucmdb or ejecutar_update_itsm
InitRetry ==
    /\ modo = "ejecucion"
    /\ cis = << >>
    /\ relations = << >>
    /\ pc = "directo"
    /\ validacion = AccVacio
    /\ enriquecidas = << >>
    /\ enriquecidas_p = << >>
    /\ ucmdb = UcmdbInicial
    /\ itsm = ItsmInicial
    /\ reporte = SinReporte
    /\ principal = SinPrincipal
    /\ anterior = SinAnterior
    /\ llamadas = << >>
    /\ llamada \in
          { NuevaLlamada("delete", Url(DELETE_ENDPOINT, <<IdRel(1)>>), m) : m \in 0..MaxReintentos }
          \cup { NuevaLlamada("update", u, m) :
                   u \in {UrlVacia, Url(ITSM_BASE_URL, <<Id("cirelationship1to1s"), IdRel(2), IdRel(1)>>)},
                   m \in 0..MaxReintentos }

NextRetry ==
    \/ EjecutarDeleteUcmdb(Respuestas)
    \/ EjecutarUpdateItsm(Respuestas)

SpecRetry == InitRetry /\ [][NextRetry]_vars

\* a direct call of validar_nit_en_relaciones_invertidas on one relation
\* between two CIs whose NIT properties are drawn from the bounded strings
Nits == StringsUpTo(MaxNitLen) \cup {None, Missing}

InitValidar ==
    /\ modo = "simulacion"
    /\ \E a \in Nits, b \in Nits :
          cis = << CI(Id("n1"), TIPO_CLIENTE, a, Missing), CI(Id("n2"), TIPO_SC, Missing, b) >>
    /\ relations = << Rel(IdRel(1), "composition", Id("n1"), Id("n2")) >>
    /\ pc = "validar"
    /\ validacion = AccVacio
    /\ enriquecidas = << >>
    /\ enriquecidas_p = << >>
    /\ ucmdb = UcmdbInicial
    /\ itsm = ItsmInicial
    /\ llamadas = << >>
    /\ llamada = SinLlamada
    /\ reporte = SinReporte
    /\ principal = SinPrincipal
    /\ anterior = SinAnterior

NextValidar == Validar

SpecValidar == InitValidar /\ [][NextValidar]_vars

\* the repair steps applied to a text: a document or the head of one
Reparar ==
    /\ pc = "reparar"
    /\ reporte' = [reporte EXCEPT !.rescate = TRUE,
                                  !.reparado = RepararTruncado(reporte.recibido).texto]
    /\ pc' = "reparado"
    /\ UNCHANGED <<modo, cis, relations, validacion, enriquecidas, enriquecidas_p,
                   ucmdb, itsm, llamadas, llamada, principal, anterior>>

InitReparar ==
    /\ modo = "simulacion"
    /\ cis = << >>
    /\ relations = << >>
    /\ pc = "reparar"
    /\ validacion = AccVacio
    /\ enriquecidas = << >>
    /\ enriquecidas_p = << >>
    /\ ucmdb = UcmdbInicial
    /\ itsm = ItsmInicial
    /\ llamadas = << >>
    /\ llamada = SinLlamada
    /\ \E d \in Documentos : \E k \in 0..Len(d) :
          reporte = [SinReporte EXCEPT !.documento = d, !.recibido = SubSeq(d, 1, k)]
    /\ principal = SinPrincipal
    /\ anterior = SinAnterior

NextReparar == Reparar

SpecReparar == InitReparar /\ [][NextReparar]_vars

\* a direct call of consultar_reporte_ucmdb
InitReporte ==
    /\ modo = "simulacion"
    /\ cis = << >>
    /\ relations = << >>
    /\ pc = "directo"
    /\ validacion = AccVacio
    /\ enriquecidas = << >>
    /\ enriquecidas_p = << >>
    /\ ucmdb = UcmdbInicial
    /\ itsm = ItsmInicial
    /\ llamadas = << >>
    /\ llamada = SinLlamada
    /\ \E d \in Documentos : \E n \in 1..MaxIntentos : reporte = NuevoReporte(d, n)
    /\ principal = SinPrincipal
    /\ anterior = SinAnterior

NextReporte == ConsultarReporteUcmdb

SpecReporte == InitReporte /\ [][NextReporte]_vars

\* the graphs the report server holds in a run of main
PayloadsMain ==
    LET cs == << Catalogo[1], Catalogo[3], Catalogo[7] >>
    IN  { [cis |-> cs,
           relations |-> << Rel(IdRel(1), "containment", Id("f1"), Id("n3")),
                            Rel(IdRel(2), "composition", Id("n1"), Id("n3")) >>],
          [cis |-> cs, relations |-> << Rel(None, "composition", Id("n1"), Id("n3")) >>],
          [cis |-> cs, relations |-> << >>] }

Configuraciones == {"valida", "modo_invalido", "sin_credenciales_ucmdb", "sin_credenciales_itsm"}

\* a run of main
InitMain ==
    /\ modo \in {"simulacion", "ejecucion"}
    /\ cis = << >>
    /\ relations = << >>
    /\ pc = "main_config"
    /\ validacion = AccVacio
    /\ enriquecidas = << >>
    /\ enriquecidas_p = << >>
    /\ ucmdb = UcmdbInicial
    /\ itsm = ItsmInicial
    /\ llamadas = << >>
    /\ llamada = SinLlamada
    /\ reporte = SinReporte
    /\ \E c \in Configuraciones, l \in BOOLEAN, a \in BOOLEAN, s \in PayloadsMain :
          principal = [SinPrincipal EXCEPT !.config = c, !.local = l, !.archivo = a,
                                           !.servidor = s]
    /\ anterior = SinAnterior

NextMain ==
    \/ MainConfig
    \/ MainAuth
    \/ MainReporte
    \/ ConsultarReporteUcmdb
    \/ MainReporteObtenido
    \/ MainJson
    \/ Validar
    \/ Enriquecer
    \/ EliminarEnUcmdbInicio
    \/ EliminarEnUcmdbItem
    \/ EliminarEnUcmdbDelete
    \/ EjecutarDeleteUcmdb(RespuestasRun)
    \/ EliminarEnUcmdbRegistrar
    \/ EliminarEnUcmdbFin
    \/ EliminarEnItsmInicio
    \/ EliminarEnItsmItem
    \/ EjecutarUpdateItsm(RespuestasRun)
    \/ EliminarEnItsmRegistrar
    \/ EliminarEnItsmFin
    \/ MainRetorna

SpecMain == InitMain /\ [][NextMain]_vars

\* two simulation-mode runs of procesar_reporte, one after the other, over
\* the same payload
FormasCorridas ==
    { Rel(Propio, "composition", Id("n1"), e2) : e2 \in {Id("n2"), Id("n3"), Id("n4"), Id("n6")} }
    \cup { Rel(Vacio, "composition", Id("n1"), Id("n3")) }
    \cup { Rel(Propio, "containment", e1, Id("n3")) : e1 \in {Id("f1"), Id("f2")} }
    \cup { Rel(Missing, "containment", Id("f1"), Id("n3")) }

InitDosCorridas ==
    /\ modo = "simulacion"
    /\ cis = Catalogo
    /\ \E n \in 1..MaxRels : \E f \in [1..n -> FormasCorridas] :
          relations = [i \in 1..n |-> RelDe(f[i], i)]
    /\ pc = "validar"
    /\ validacion = AccVacio
    /\ enriquecidas = << >>
    /\ enriquecidas_p = << >>
    /\ ucmdb = UcmdbInicial
    /\ itsm = ItsmInicial
    /\ llamadas = << >>
    /\ llamada = SinLlamada
    /\ reporte = SinReporte
    /\ principal = SinPrincipal
    /\ anterior = SinAnterior

NextDosCorridas ==
    \/ Validar
    \/ Enriquecer
    \/ EliminarEnUcmdbInicio
    \/ EliminarEnUcmdbItem
    \/ EliminarEnUcmdbDelete
    \/ EliminarEnUcmdbFin
    \/ EliminarEnItsmInicio
    \/ EliminarEnItsmItem
    \/ EliminarEnItsmFin
    \/ OtraCorrida

SpecDosCorridas == InitDosCorridas /\ [][NextDosCorridas]_vars

\* ------------------------------------------------------------------ claims
RunTerminado == pc \in {"fin", "error"}

\* number of calls of the given method issued for the inconsistency of relation rel
Cuenta(metodo, rel) ==
    Cardinality({ k \in 1..Len(llamadas) : llamadas[k].metodo = metodo /\ llamadas[k].rel = rel })

TodosEnEstado(resumen, estados) ==
    \A k \in 1..Len(resumen) : resumen[k].estado \in estados

\* C1: in simulation mode neither ejecutar_delete_ucmdb nor ejecutar_update_itsm
\* is ever invoked, no HTTP attempt is in progress, and every audit record of
\* both summaries is in state SIMULADA.
C1_SimulacionSinLlamadas ==
    modo = "simulacion" =>
        /\ llamadas = << >>
        /\ llamada = SinLlamada
        /\ TodosEnEstado(ucmdb.resumen, {"SIMULADA"})
        /\ TodosEnEstado(itsm.resumen, {"SIMULADA"})

C1_Witness ==
    /\ modo = "simulacion" /\ pc = "fin"
    /\ Len(ucmdb.resumen) >= 2 /\ Len(itsm.resumen) >= 1

\* C2 (as claimed): when a run in execution mode is over, every enriched
\* normal inconsistency without a foreign object caused exactly one DELETE
\* call and no PUT, and every one with a foreign object exactly two DELETE
\* calls and one PUT.
C2_UnoODosDeletes ==
    (modo = "ejecucion" /\ RunTerminado) =>
        \A k \in 1..Len(enriquecidas) :
            LET item == enriquecidas[k]
            IN  IF item.relacion_fo
                THEN Cuenta("DELETE", item.rel) = 2 /\ Cuenta("PUT", item.rel) = 1
                ELSE Cuenta("DELETE", item.rel) = 1 /\ Cuenta("PUT", item.rel) = 0

\* an answer the claim calls retryable: any 5xx, a connection error, a timeout
FalloReintentable(r) ==
    \/ r.tipo = "http" /\ r.status >= 500 /\ r.status < 600
    \/ r.tipo \in {"timeout", "conexion"}

\* C3 (as claimed): a call never makes more than max_reintentos attempts;
\* a call that returned on a 5xx, a connection error or a timeout had used
\* up its attempts, failed, and its message carries the last status.
C3_ReintentaTodo5xx ==
    /\ llamada.intento <= llamada.max_reintentos
    /\ (llamada.estado = "retornada" /\ FalloReintentable(llamada.ultimo)) =>
          /\ llamada.intento = llamada.max_reintentos
          /\ ~llamada.retorno.exito
          /\ llamada.ultimo.tipo = "http" => llamada.retorno.status = llamada.ultimo.status

Es4xx(r) == r.tipo = "http" /\ r.status >= 400 /\ r.status < 500

\* C4: as soon as an attempt of a call got a 4xx answer the call has returned
\* a failure, whatever max_reintentos is: no state has a call still in
\* progress after a 4xx.
C4_4xxTerminaLaLlamada ==
    Es4xx(llamada.ultimo) =>
        /\ llamada.estado = "retornada"
        /\ ~llamada.retorno.exito

C4_Witness ==
    /\ llamada.ultimo = Http(429) /\ llamada.estado = "retornada"
    /\ llamada.intento = 1 /\ llamada.max_reintentos = 3

\* C5 (as claimed): between two consecutive attempts of a call the policy
\* sleeps: a call that made n attempts slept at least n - 1 times.
C5_EsperaEntreIntentos ==
    llamada.intento >= 2 => llamada.esperas >= llamada.intento - 1

\* C6 (as claimed): in execution mode the loops of eliminar_en_ucmdb and
\* eliminar_en_itsm run to their end whatever the records hold: the run never
\* leaves a loop before the last element was visited.
C6_BuclesCompletos ==
    modo = "ejecucion" =>
        /\ pc \in {"error", "itsm_inicio", "itsm_item", "itsm_http", "fin"} =>
              (enriquecidas = << >> \/ ucmdb.idx > Len(enriquecidas))
        /\ pc \in {"error", "fin"} =>
              (itsm.validas = << >> \/ itsm.idx > Len(itsm.validas))

Presente(v) == v # None /\ v # Missing

\* t is s without its surrounding whitespace
EsRecorte(s, t) ==
    \E i \in 0..Len(s) :
        /\ i + Len(t) <= Len(s)
        /\ SubSeq(s, i + 1, i + Len(t)) = t
        /\ \A k \in 1..i : s[k] \in Espacios
        /\ \A k \in (i + Len(t) + 1)..Len(s) : s[k] \in Espacios
        /\ t # << >> => (t[1] \notin Espacios /\ t[Len(t)] \notin Espacios)

IgualesTrasRecorte(a, b) ==
    \E i \in 0..Len(a), j \in 0..Len(a) :
        EsRecorte(a, SubSeq(a, i + 1, j)) /\ EsRecorte(b, SubSeq(a, i + 1, j))

Emitidas == Len(validacion.normales) + Len(validacion.particulares)

\* C7: for a relation whose endpoints resolve and carry both NIT fields, the
\* validator emits no record when the values are equal after stripping the
\* surrounding whitespace, and exactly one record when they differ.
C7_IgualesTrasStrip ==
    (pc = "enriquecer" /\ Presente(cis[1].nitA) /\ Presente(cis[2].nitB)) =>
        IF IgualesTrasRecorte(cis[1].nitA, cis[2].nitB)
        THEN Emitidas = 0
        ELSE Emitidas = 1

C7_Witness ==
    /\ pc = "enriquecer"
    /\ cis[1].nitA = <<"9">> /\ cis[2].nitB = <<"9", " ">>
    /\ Emitidas = 0 /\ validacion.procesadas = 1

TieneLetra(s) == \E i \in 1..Len(s) : s[i] \in Letras

\* C8: every emitted record is in exactly one list: in the particular list
\* when one of its normalized NITs holds a letter, in the normal list when
\* none does.
C8_ClasificacionPorLetras ==
    pc = "enriquecer" =>
        /\ \A k \in 1..Len(validacion.particulares) :
              LET inc == validacion.particulares[k]
              IN  TieneLetra(inc.nit_end1) \/ TieneLetra(inc.nit_end2)
        /\ \A k \in 1..Len(validacion.normales) :
              LET inc == validacion.normales[k]
              IN  ~TieneLetra(inc.nit_end1) /\ ~TieneLetra(inc.nit_end2)
        /\ \A i \in 1..Len(validacion.particulares), j \in 1..Len(validacion.normales) :
              validacion.particulares[i].rel # validacion.normales[j].rel

C8_Witness ==
    /\ pc = "enriquecer"
    /\ Len(validacion.particulares) = 1 /\ Len(validacion.normales) = 0
    /\ TieneLetra(validacion.particulares[1].nit_end1)
    /\ ~TieneLetra(validacion.particulares[1].nit_end2)

\* the containment relation of the index for the end2Id of an inconsistency
ContencionDe(item) == containment_by_end2(relations, item.end2Id)

\* that relation exists and the CI of its end1Id exists with a whitelisted type
TieneFO(item) ==
    /\ ContencionDe(item) # NoRel
    /\ \E k \in 1..Len(cis) :
          /\ Truthy(cis[k].ucmdbId)
          /\ cis[k].ucmdbId = Get(ContencionDe(item).end1Id)
          /\ cis[k].type \in TIPOS_FO

\* C9 (as claimed): after enrichment every normal inconsistency has
\* relacion_fo true exactly when the containment index holds a relation for
\* its end2Id whose end1 CI is of a foreign-object type; then ucmdbid_fo is
\* the id of that relation, otherwise it is the absent sentinel.
C9_FOExactamente ==
    pc \notin {"validar", "enriquecer", "directo"} =>
        \A k \in 1..Len(enriquecidas) :
            LET item == enriquecidas[k]
            IN  /\ item.relacion_fo = TieneFO(item)
                /\ IF TieneFO(item)
                   THEN ContencionDe(item).ucmdbId # Missing =>
                            item.ucmdbid_fo = ContencionDe(item).ucmdbId
                   ELSE GetDef(item.ucmdbid_fo, NA) = NA

UrlEsperada(item) ==
    Url(ITSM_BASE_URL, <<Id("cirelationship1to1s"), Strip(item.ucmdbid_fo), Strip(item.ucmdbId)>>)

\* C10: every PUT, issued or simulated, belongs to an inconsistency whose
\* relacion_fo is true, no inconsistency gets more than one, and its URL is
\* base/cirelationship1to1s/{ucmdbid_fo}/{ucmdbId}.
C10_PutSoloConFO ==
    /\ \A k \in 1..Len(itsm.resumen) :
          LET rec == itsm.resumen[k]
              item == itsm.validas[rec.numero]
          IN  /\ rec.metodo = "PUT"
              /\ item.relacion_fo
              /\ \E j \in 1..Len(enriquecidas) : enriquecidas[j] = item
              /\ rec.url = UrlEsperada(item)
    /\ \A k1, k2 \in 1..Len(itsm.resumen) :
          k1 # k2 => itsm.resumen[k1].numero # itsm.resumen[k2].numero
    /\ \A k \in 1..Len(llamadas) :
          llamadas[k].metodo = "PUT" =>
              /\ \E j \in 1..Len(enriquecidas) :
                    /\ enriquecidas[j].rel = llamadas[k].rel
                    /\ enriquecidas[j].relacion_fo
                    /\ llamadas[k].url = UrlEsperada(enriquecidas[j])
              /\ Cuenta("PUT", llamadas[k].rel) = 1

C10_Witness ==
    /\ modo = "ejecucion" /\ pc = "fin"
    /\ Len(itsm.resumen) = 1 /\ Cuenta("PUT", itsm.validas[1].rel) = 1
    /\ \E j \in 1..Len(enriquecidas) :
          enriquecidas[j].enriquecido /\ ~enriquecidas[j].relacion_fo

\* the relation ids of the particular inconsistencies
IdsParticulares == { enriquecidas_p[k].ucmdbId : k \in 1..Len(enriquecidas_p) }

\* the payload positions of the particular inconsistencies
PosParticulares == { enriquecidas_p[k].rel : k \in 1..Len(enriquecidas_p) }

PutDebido(item) ==
    /\ item.relacion_fo
    /\ Truthy(item.ucmdbid_fo) /\ item.ucmdbid_fo # NA
    /\ Strip(item.ucmdbid_fo) # Vacio /\ Strip(item.ucmdbId) # Vacio

\* the DELETE calls issued so far
DeletesEmitidos(ll) == SelectSeq(ll, LAMBDA c : c.metodo = "DELETE")

EnFaseItsm == pc \in {"itsm_inicio", "itsm_item", "itsm_http"}

\* C12: when a run in execution mode is over, the PUT of every inconsistency
\* with a usable foreign object was issued exactly once whatever the results
\* of the DELETE calls were, and no step of the ticketing phase changes the
\* records or counters of the DELETE phase or issues a DELETE.
C12_AccionesIndependientes ==
    /\ [](modo = "ejecucion" /\ pc = "fin" =>
            \A k \in 1..Len(enriquecidas) :
                PutDebido(enriquecidas[k]) => Cuenta("PUT", enriquecidas[k].rel) = 1)
    /\ [][EnFaseItsm => /\ ucmdb' = ucmdb
                        /\ DeletesEmitidos(llamadas') = DeletesEmitidos(llamadas)]_vars

C12_Witness ==
    /\ modo = "ejecucion" /\ pc = "fin"
    /\ ucmdb.fallidas = 2 /\ ucmdb.exitosas = 0
    /\ itsm.fallidas = 1 /\ Len(itsm.resumen) = 1
    /\ Len(DeletesEmitidos(llamadas)) = 2 /\ Len(ucmdb.resumen) = 2

\* the call fn got an HTTP answer to its last attempt
UltimoHttp(fn) == llamada.fn = fn /\ llamada.intento >= 1 /\ llamada.ultimo.tipo = "http"

TerminoConExito == llamada.estado = "retornada" /\ llamada.retorno.exito

\* C13 (as claimed): an attempt of ejecutar_delete_ucmdb ends the call with a
\* success result exactly when the status of its answer is 200, 202 or 204.
C13_ExitoDelete ==
    UltimoHttp("delete") => (TerminoConExito <=> llamada.ultimo.status \in {200, 202, 204})

\* C14 (as claimed): an attempt of ejecutar_update_itsm ends the call with a
\* success result exactly when the status of its answer is 200, 201, 202 or 204.
C14_ExitoUpdate ==
    UltimoHttp("update") => (TerminoConExito <=> llamada.ultimo.status \in {200, 201, 202, 204})

SinSeparadorFinal(t) == t = << >> \/ t[Len(t)] \notin {",", " "}

Balanceado(t) ==
    /\ Contar(t, "[") = Contar(t, "]")
    /\ Contar(t, "{") = Contar(t, "}")

\* t is rec cut after its right-most complete closer, plus closing characters
CortadoEnCierre(rec, t) ==
    \E j \in 1..Len(rec) :
        /\ rec[j] \in {"}", "]"}
        /\ \A i \in (j + 1)..(Len(rec) - 1) : ~(rec[i] \in {"}", "]"} /\ rec[i + 1] = ",")
        /\ \E a \in 0..Len(t), b \in 0..Len(t) :
              t = SubSeq(rec, 1, j) \o [i \in 1..a |-> "]"] \o [i \in 1..b |-> "}"]

\* the download was cut with more than the salvage threshold received
Rescatado == reporte.estado = "retornada" /\ reporte.ultimo.cortado /\ reporte.ultimo.grande

\* C15 (as claimed): when the stream is cut after more than the salvage
\* threshold was received, the text consultar_reporte_ucmdb returns is the
\* received text cut after its right-most complete closer, without trailing
\* separator, closed so that its brackets and its braces balance.
C15_DevuelveReparado ==
    (Rescatado /\ reporte.recibido # << >>) =>
        /\ reporte.resultado = "retorno"
        /\ CortadoEnCierre(reporte.recibido, reporte.texto)
        /\ SinSeparadorFinal(reporte.texto)
        /\ Balanceado(reporte.texto)

\* C16 (as claimed): the repair steps applied to a complete, well-formed
\* document with balanced brackets return that document unchanged.
C16_ReparacionIdempotente ==
    (pc = "reparado" /\ reporte.recibido = reporte.documento) =>
        reporte.reparado = reporte.documento

Es4xxReporte(r) == r.tipo = "http" /\ r.status >= 400 /\ r.status < 500

\* C17 (as claimed): a 4xx answer to the report request ends the acquisition
\* at once with ReportError carrying the response body: the loop makes no
\* further attempt and no report content is returned.
C17_4xxFallaSinContenido ==
    Es4xxReporte(reporte.ultimo) =>
        /\ reporte.estado = "retornada"
        /\ reporte.resultado = "ReportError"
        /\ reporte.cuerpo = CuerpoDe(reporte.ultimo.status)
        /\ reporte.texto = None

Agotado == reporte.estado = "retornada" /\ reporte.intento = reporte.reintentos

\* C18 (as claimed): the acquisition never issues more report requests than
\* reintentos; exhausted by a timeout it raises ReportTimeoutError, exhausted
\* by a 5xx, a connection error or another request error it raises
\* ReportError; it never returns None.
C18_IntentosAcotados ==
    /\ reporte.peticiones <= reporte.reintentos
    /\ (Agotado /\ reporte.ultimo.tipo = "timeout") => reporte.resultado = "ReportTimeoutError"
    /\ (Agotado /\ \/ reporte.ultimo.tipo \in {"conexion", "peticion"}
                   \/ reporte.ultimo.tipo = "http" /\ reporte.ultimo.status >= 500)
          => reporte.resultado = "ReportError"
    /\ (reporte.estado = "retornada" /\ reporte.resultado = "retorno") => reporte.texto # None

\* no network call was made: no authentication, no report request, no DELETE or PUT
SinRed == principal.auth = 0 /\ reporte.peticiones = 0 /\ llamadas = << >>

\* the validator and the enrichment did not run
SinValidacion == validacion = AccVacio /\ enriquecidas = << >> /\ enriquecidas_p = << >>

\* no DELETE and no PUT was issued or simulated
SinAcciones ==
    /\ ucmdb = UcmdbInicial /\ itsm = ItsmInicial
    /\ llamadas = << >> /\ llamada = SinLlamada

AuthFallo == principal.auth >= 1 /\ principal.token = None

ReporteFallo ==
    \/ reporte.estado = "retornada" /\ ~(reporte.resultado = "retorno" /\ Truthy(reporte.texto))
    \/ /\ principal.config = "valida" /\ ~AuthFallo
       /\ principal.local /\ ~principal.archivo

JsonFallo == principal.contenido # None /\ ~json_valido(principal.contenido)

\* C19: a run whose configuration is invalid makes no network call and ends
\* with CONFIG_ERROR; a run whose authentication, report acquisition or JSON
\* parsing fails ends with AUTH_ERROR, REPORT_ERROR or JSON_ERROR without
\* any validation, DELETE or PUT, issued or simulated; once main has returned
\* nothing happens any more.
C19_ErroresFatales ==
    /\ [](principal.config # "valida" =>
            /\ SinRed /\ SinValidacion /\ SinAcciones
            /\ pc # "main_config" => (pc = "salida" /\ principal.salida = CONFIG_ERROR))
    /\ [](principal.salida \in {AUTH_ERROR, REPORT_ERROR, JSON_ERROR, CONFIG_ERROR} =>
            pc = "salida" /\ SinValidacion /\ SinAcciones)
    /\ [](pc = "salida" =>
            /\ AuthFallo => principal.salida = AUTH_ERROR
            /\ ReporteFallo => principal.salida = REPORT_ERROR
            /\ JsonFallo => principal.salida = JSON_ERROR)
    /\ [][principal.salida # SinSalida => UNCHANGED vars]_vars

C19_Witness ==
    /\ pc = "salida" /\ principal.salida = JSON_ERROR /\ modo = "ejecucion"
    /\ principal.auth = 1 /\ reporte.rescate /\ reporte.intento = 3
    /\ principal.contenido = reporte.recibido

\* the DELETE targets of a list of inconsistencies, in the order of the list
RECURSIVE ObjetivosUcmdb(_)
ObjetivosUcmdb(enr) ==
    IF enr = << >> THEN << >>
    ELSE LET item == Head(enr)
             id == Strip(GetDef(item.ucmdbId, Vacio))
         IN  (IF id \in {Vacio, None} THEN << >>
              ELSE IdsAEliminar(id, item.relacion_fo, GetDef(item.ucmdbid_fo, NA)))
             \o ObjetivosUcmdb(Tail(enr))

\* the list follows the order of the relations of the payload
EnOrdenDePayload(lista) ==
    \A i, j \in 1..Len(lista) : i < j => lista[i].rel < lista[j].rel

\* the records are numbered in the order they were appended
Numerados(registros) ==
    \A i, j \in 1..Len(registros) : i < j => registros[i].numero < registros[j].numero

SegundaCorridaTerminada == anterior.corridas = 1 /\ pc \in {"fin", "error"}

RelacionDe(item) == relations_by_id(relations, item.ucmdbId)

\* C21 (as claimed): every record that leaves the enrichment of the normal
\* inconsistencies has a relation id that resolves to a relation of the
\* payload whose end1Id and end2Id are both non-empty.
C21_SoloRelacionesResueltas ==
    pc \notin {"validar", "enriquecer"} =>
        \A k \in 1..Len(enriquecidas) :
            /\ RelacionDe(enriquecidas[k]) # NoRel
            /\ Truthy(RelacionDe(enriquecidas[k]).end1Id)
            /\ Truthy(RelacionDe(enriquecidas[k]).end2Id)

\* the last attempt got a 200 whose download was cut
DescargaCortada ==
    reporte.ultimo.tipo = "http" /\ reporte.ultimo.status = 200 /\ reporte.ultimo.cortado

\* C22: a download cut at or below the salvage threshold ends the
\* acquisition at once with ReportError, without content and without another
\* attempt even when attempts remain; cut above the threshold, the call
\* returns text made of the partial data instead of raising.
C22_CorteBajoUmbral ==
    DescargaCortada =>
        /\ reporte.estado = "retornada"
        /\ reporte.peticiones = reporte.intento
        /\ IF reporte.ultimo.grande
           THEN /\ reporte.resultado = "retorno" /\ reporte.rescate
                /\ reporte.texto # None /\ reporte.texto # << >>
           ELSE /\ reporte.resultado = "ReportError" /\ ~reporte.rescate
                /\ reporte.texto = None

C22_Witness ==
    /\ DescargaCortada /\ ~reporte.ultimo.grande
    /\ reporte.recibido # << >>
    /\ reporte.intento = 1 /\ reporte.reintentos = 2
    /\ reporte.resultado = "ReportError"

\* the CIs of the payload that carry the id
CIsCon(id) == { k \in 1..Len(cis) : Truthy(cis[k].ucmdbId) /\ cis[k].ucmdbId = Get(id) }

\* an endpoint of the relation is in no CI of the payload
Colgante(rel) == CIsCon(rel.end1Id) = {} \/ CIsCon(rel.end2Id) = {}

\* both endpoints resolve and a NIT field is absent on one of them
SinNit(rel) ==
    /\ ~Colgante(rel)
    /\ \/ \E k \in CIsCon(rel.end1Id) : ~Presente(cis[k].nitA)
       \/ \E k \in CIsCon(rel.end2Id) : ~Presente(cis[k].nitB)

\* the payload positions of the emitted records
PosEmitidas ==
    { validacion.normales[k].rel : k \in 1..Len(validacion.normales) }
    \cup { validacion.particulares[k].rel : k \in 1..Len(validacion.particulares) }

\* C23: after the validator scanned the payload, no relation with a dangling
\* endpoint or with an absent NIT field has a record, the missing-node
\* counter is the number of relations with a dangling endpoint, the
\* missing-identifier counter the number of relations with an absent NIT,
\* every other relation was processed, and the run goes on to enrichment.
C23_ToleraFaltantes ==
    pc # "validar" =>
        LET colgantes == { i \in 1..Len(relations) : Colgante(relations[i]) }
            sin_nit == { i \in 1..Len(relations) : SinNit(relations[i]) }
        IN  /\ PosEmitidas \cap (colgantes \cup sin_nit) = {}
            /\ validacion.nodos_faltantes = Cardinality(colgantes)
            /\ validacion.nits_faltantes = Cardinality(sin_nit)
            /\ validacion.procesadas = Len(relations) - Cardinality(colgantes \cup sin_nit)

C23_Witness ==
    /\ pc = "enriquecer" /\ Len(relations) = 3
    /\ Colgante(relations[1]) /\ SinNit(relations[2])
    /\ validacion.nodos_faltantes = 1 /\ validacion.nits_faltantes = 1
    /\ PosEmitidas = {3}

\* the PUT calls issued so far
PutsEmitidos(ll) == SelectSeq(ll, LAMBDA c : c.metodo = "PUT")

\* the k-th record of a summary stands for the k-th call of its method
RegistroDe(registros, emitidos, metodo) ==
    \A k \in 1..Len(registros) :
        /\ registros[k].metodo = metodo
        /\ registros[k].modo = Modo(modo)
        /\ registros[k].ucmdbId # Missing /\ registros[k].url # UrlVacia
        /\ EsEjecucion(modo) => registros[k].url = emitidos[k].url

Cuantos(registros, estado) ==
    Cardinality({ k \in 1..Len(registros) : registros[k].estado = estado })

\* C24: every delete or update call that was issued and has returned, or was
\* simulated, has exactly one audit record with its id, URL, method and mode;
\* no record is ever in a state other than SIMULADA (simulation) or EXITOSA /
\* FALLIDA (execution), and in execution mode the succeeded and failed
\* counters of each loop count the records of that state.
C24_UnRegistroPorLlamada ==
    /\ TodosEnEstado(ucmdb.resumen,
           IF EsEjecucion(modo) THEN {"EXITOSA", "FALLIDA"} ELSE {"SIMULADA"})
    /\ TodosEnEstado(itsm.resumen,
           IF EsEjecucion(modo) THEN {"EXITOSA", "FALLIDA"} ELSE {"SIMULADA"})
    /\ RegistroDe(ucmdb.resumen, DeletesEmitidos(llamadas), "DELETE")
    /\ RegistroDe(itsm.resumen, PutsEmitidos(llamadas), "PUT")
    /\ Len(ucmdb.resumen) = ucmdb.total_deletes - (IF pc = "ucmdb_http" THEN 1 ELSE 0)
    /\ EsEjecucion(modo) =>
          /\ Len(DeletesEmitidos(llamadas)) = ucmdb.total_deletes
          /\ Len(PutsEmitidos(llamadas)) = Len(itsm.resumen) + (IF pc = "itsm_http" THEN 1 ELSE 0)
          /\ ucmdb.exitosas = Cuantos(ucmdb.resumen, "EXITOSA")
          /\ ucmdb.fallidas = Cuantos(ucmdb.resumen, "FALLIDA")
          /\ itsm.exitosas = Cuantos(itsm.resumen, "EXITOSA")
          /\ itsm.fallidas = Cuantos(itsm.resumen, "FALLIDA")
          /\ ucmdb.exitosas + ucmdb.fallidas = Len(ucmdb.resumen)
          /\ itsm.exitosas + itsm.fallidas = Len(itsm.resumen)

C24_Witness ==
    /\ modo = "ejecucion" /\ pc = "fin"
    /\ ucmdb.exitosas = 1 /\ ucmdb.fallidas = 2 /\ Len(ucmdb.resumen) = 3
    /\ itsm.exitosas = 1 /\ Len(itsm.resumen) = 1
    /\ Len(llamadas) = 4

\* the relation at position i is inconsistent: both endpoints resolve, both
\* NIT fields are there and they differ once stripped
Inconsistente(i) ==
    /\ ~Colgante(relations[i]) /\ ~SinNit(relations[i])
    /\ \E a \in CIsCon(relations[i].end1Id), b \in CIsCon(relations[i].end2Id) :
          Strip(cis[a].nitA) # Strip(cis[b].nitB)

\* every record of the list is the record of the relation at its position
DeSuRelacion(lista) ==
    \A k \in 1..Len(lista) :
        /\ lista[k].rel \in 1..Len(relations)
        /\ lista[k].ucmdbId = Get(relations[lista[k].rel].ucmdbId)
        /\ lista[k].end1Id = Get(relations[lista[k].rel].end1Id)
        /\ lista[k].end2Id = Get(relations[lista[k].rel].end2Id)

\* b holds the records of a, one for one, in the same order
MismoOrden(a, b) ==
    /\ Len(a) = Len(b)
    /\ \A k \in 1..Len(a) : a[k].rel = b[k].rel /\ a[k].ucmdbId = b[k].ucmdbId

\* C25: the normal list and the particular list of the validator are each
\* in payload order without repetition, every record is the record of the
\* relation at its position, the inconsistent relations are exactly the
\* positions with a record, no position is in both lists, and both
\* enrichment passes keep the lists' length and order.
C25_OrdenEstable ==
    pc # "validar" =>
        /\ EnOrdenDePayload(validacion.normales)
        /\ EnOrdenDePayload(validacion.particulares)
        /\ DeSuRelacion(validacion.normales)
        /\ DeSuRelacion(validacion.particulares)
        /\ PosEmitidas = { i \in 1..Len(relations) : Inconsistente(i) }
        /\ Emitidas = Cardinality(PosEmitidas)
        /\ pc # "enriquecer" =>
              /\ MismoOrden(validacion.normales, enriquecidas)
              /\ MismoOrden(validacion.particulares, enriquecidas_p)

C25_Witness ==
    /\ pc = "ucmdb_inicio" /\ Len(relations) = 3
    /\ Len(validacion.normales) = 2 /\ Len(validacion.particulares) = 1
    /\ validacion.normales[1].rel = 1 /\ validacion.normales[2].rel = 3
    /\ enriquecidas[1].rel = 1 /\ enriquecidas[2].rel = 3
    /\ enriquecidas[1].ucmdbId # enriquecidas[2].ucmdbId

\* the positions of the containment relations with the given end2Id
Contenciones(end2id) ==
    { i \in 1..Len(relations) : /\ relations[i].type = "containment"
                                /\ Truthy(end2id) /\ relations[i].end2Id = end2id }

\* the CI at end1 of the relation at position i is of a foreign-object type
End1EsFO(i) == \E k \in CIsCon(relations[i].end1Id) : cis[k].type \in TIPOS_FO

\* C26: for every inconsistency whose relation id resolves, foreign-object
\* resolution looks only at the last containment relation, in payload order,
\* with the end2Id of its relation: relacion_fo is true exactly when the end1
\* CI of that last relation is of a foreign-object type, whatever the earlier
\* containment relations with that end2Id are.
C26_UltimaContencionGana ==
    pc \notin {"validar", "enriquecer"} =>
        \A k \in 1..Len(enriquecidas) :
            LET item == enriquecidas[k]
                idx == Contenciones(Get(RelacionDe(item).end2Id))
                ultima == Max(idx)
            IN  item.enriquecido =>
                  IF idx = {} THEN ~item.relacion_fo
                  ELSE /\ item.relacion_fo = End1EsFO(ultima)
                       /\ item.relacion_fo =>
                             item.ucmdbid_fo = GetDef(relations[ultima].ucmdbId, NA)

C26_Witness ==
    /\ pc = "fin" /\ Len(relations) = 3 /\ Len(enriquecidas) = 1
    /\ Contenciones(enriquecidas[1].end2Id) = {2, 3}
    /\ End1EsFO(2) /\ ~End1EsFO(3)
    /\ enriquecidas[1].enriquecido /\ ~enriquecidas[1].relacion_fo

\* a usable id: neither null, absent, empty nor blank
IdNoVacio(id) == Truthy(id) /\ Strip(id) # Vacio

\* C27 (as claimed): every DELETE, issued or simulated, targets a non-empty
\* id, and when a run in execution mode is over the inconsistencies that got
\* a second DELETE are exactly those that got a PUT.
C27_DeleteFoConPut ==
    /\ \A k \in 1..Len(ucmdb.resumen) : IdNoVacio(ucmdb.resumen[k].ucmdbId)
    /\ \A k \in 1..Len(llamadas) :
          llamadas[k].metodo = "DELETE" =>
              \A s \in 1..Len(llamadas[k].url.segs) : IdNoVacio(llamadas[k].url.segs[s])
    /\ (modo = "ejecucion" /\ pc = "fin") =>
          \A k \in 1..Len(enriquecidas) :
              Cuenta("DELETE", enriquecidas[k].rel) = 2 <=> Cuenta("PUT", enriquecidas[k].rel) = 1

\* the positions in llamadas of the DELETE calls of the inconsistency of relation rel
DeletesDe(rel) ==
    { k \in 1..Len(llamadas) : llamadas[k].metodo = "DELETE" /\ llamadas[k].rel = rel }

\* C28: no DELETE or PUT, issued or simulated, exists before validation and
\* enrichment are over; every DELETE call comes before every PUT call and has
\* returned when the first PUT is issued; no PUT is simulated before the
\* DELETE loop is over; and of the two DELETE calls of an inconsistency the
\* first targets its relation id, the second its foreign-object id.
C28_FasesOrdenadas ==
    /\ pc \in {"validar", "enriquecer"} =>
          /\ llamadas = << >> /\ llamada = SinLlamada
          /\ ucmdb.resumen = << >> /\ itsm.resumen = << >>
          /\ enriquecidas = << >>
    /\ \A i, j \in 1..Len(llamadas) :
          (llamadas[i].metodo = "PUT" /\ llamadas[j].metodo = "DELETE") => j < i
    /\ (PutsEmitidos(llamadas) # << >> \/ itsm.resumen # << >> \/ EnFaseItsm) =>
          /\ llamada.fn # "delete"
          /\ enriquecidas = << >> \/ ucmdb.idx > Len(enriquecidas)
          /\ Len(ucmdb.resumen) = ucmdb.total_deletes
    /\ \A k \in 1..Len(enriquecidas) :
          LET item == enriquecidas[k]
              ds == DeletesDe(item.rel)
          IN  /\ Cardinality(ds) <= 2
              /\ ds # {} =>
                    llamadas[CHOOSE d \in ds : \A e \in ds : d <= e].url.segs
                        = <<Strip(item.ucmdbId)>>
              /\ Cardinality(ds) = 2 => llamadas[Max(ds)].url.segs = <<item.ucmdbid_fo>>
    /\ \A k \in 1..Len(ucmdb.resumen) :
          ucmdb.resumen[k].ucmdbId = ObjetivosUcmdb(enriquecidas)[k]

C28_Witness ==
    /\ modo = "ejecucion" /\ pc = "itsm_http" /\ llamada.fn = "update"
    /\ Len(llamadas) = 4 /\ llamadas[4].metodo = "PUT"
    /\ Len(DeletesEmitidos(llamadas)) = 3
    /\ Cardinality(DeletesDe(llamadas[4].rel)) = 2
    /\ ucmdb.exitosas + ucmdb.fallidas = 3

\* C29: after the validator scanned a non-empty payload, the missing-node
\* count, the missing-identifier count and the processed count add up to the
\* number of relations, and the emitted records, normal and particular, are
\* at most the processed count.
C29_ContadoresParticionan ==
    pc # "validar" =>
        /\ validacion.nodos_faltantes + validacion.nits_faltantes + validacion.procesadas
              = Len(relations)
        /\ Emitidas <= validacion.procesadas

C29_Witness ==
    /\ pc = "enriquecer" /\ Len(relations) = 3
    /\ validacion.nodos_faltantes = 1 /\ validacion.nits_faltantes = 1
    /\ validacion.procesadas = 1 /\ Emitidas = 0

\* C30: a call of ejecutar_delete_ucmdb or ejecutar_update_itsm is either in
\* progress or has returned a (success, message) pair with a message; an
\* attempt that raised an exception other than a timeout or a connection
\* error has ended the call with a failure pair, whatever attempts remain.
C30_SiempreRetornaPar ==
    /\ llamada.estado \in {"inactiva", "en_curso", "retornada"}
    /\ llamada.estado = "retornada" =>
          /\ llamada.retorno.exito \in BOOLEAN
          /\ llamada.retorno.texto # ""
          /\ llamada.retorno.exito => llamada.ultimo.tipo = "http"
    /\ llamada.estado = "en_curso" => llamada.retorno = SinRetorno
    /\ llamada.ultimo = OtraExcepcion =>
          /\ llamada.estado = "retornada"
          /\ ~llamada.retorno.exito
          /\ llamada.retorno.texto \in {"Error", "Error ITSM"}

C30_Witness ==
    /\ llamada.fn = "update" /\ llamada.ultimo = OtraExcepcion
    /\ llamada.estado = "retornada" /\ ~llamada.retorno.exito
    /\ llamada.intento = 2 /\ llamada.max_reintentos = 3

====
